---------------------------- MODULE Spec2Model ----------------------------
(***************************************************************************)
(* The application bundle launcher of src/src/main.c: argument check,      *)
(* bundle validation, library search-path configuration, inspection of the *)
(* optional components and process handoff (execv).                        *)
(*                                                                         *)
(* Strings are sequences of atoms [t, n]: n characters of the text named   *)
(* t.  A literal character is an atom of one character; the bundle path    *)
(* given on the command line is the atom "B" and the value LD_LIBRARY_PATH *)
(* had at start the atom "P", each with its length, so that the source's   *)
(* buffer sizes (4096) are kept as they are.  An atom of fewer characters  *)
(* than the text it names is that text cut short.                          *)
(***************************************************************************)
EXTENDS Integers, Sequences, FiniteSets, TLC

\* ------------------------------------------------------------ constants
MAX_PATH_LENGTH == 4096
MAX_ENV_LENGTH == 4096

EXIT_SUCCESS == 0
EXIT_INVALID_ARGS == 1
EXIT_BUNDLE_ERROR == 2
EXIT_EXEC_ERROR == 3
EXIT_SYSTEM_ERROR == 4

\* No exit status yet: the process is still running (or was replaced).
NoExit == -1

\* ---------------------------------------------------------------- bounds
\* argc ranges over 1..MaxArgc.
MaxArgc == 3
\* Length of the short bundle path.
ShortLen == 2
\* How many times another process changes the executable between the
\* validator's check and the exec.
MaxFsChanges == 1
\* The long bundle paths are MAX_PATH_LENGTH - d characters, d in Slacks:
\* too long (0), no room for any suffix (1), room for "/exec/b" and
\* "/librar" (8), for "/exec/bas" and "/library" (10), for every suffix (11).
Slacks == {0, 1, 8, 10, 11}

\* --------------------------------------------------------------- strings
Lit(chars) == [i \in 1 .. Len(chars) |-> [t |-> chars[i], n |-> 1]]

Blk(tag, len) == IF len = 0 THEN << >> ELSE << [t |-> tag, n |-> len] >>

RECURSIVE strlen(_)
strlen(s) == IF s = << >> THEN 0 ELSE Head(s).n + strlen(Tail(s))

\* The first n characters of s.
RECURSIVE Take(_, _)
Take(s, n) ==
    IF s = << >> \/ n <= 0 THEN << >>
    ELSE IF Head(s).n <= n THEN << Head(s) >> \o Take(Tail(s), n - Head(s).n)
    ELSE << [Head(s) EXCEPT !.n = n] >>

\* snprintf(buf, size, "%s%s...", parts): the text is cut to size - 1
\* characters, the terminator taking the last place.
snprintf(size, text) == Take(text, size - 1)

EXEC_PATH == Lit(<< "/", "e", "x", "e", "c", "/", "b", "a", "s", "e" >>)
LIB_PATH == Lit(<< "/", "l", "i", "b", "r", "a", "r", "y" >>)
RES_PATH == Lit(<< "/", "r", "e", "s", "o", "u", "r", "c", "e", "s" >>)
METADATA_PATH == Lit(<< "/", "i", "n", "f", "o", ".", "y", "a", "m", "l" >>)
ICON_PATH == Lit(<< "/", "i", "c", "o", "n", ".", "p", "n", "g" >>)
Colon == Lit(<< ":" >>)
Slash == [t |-> "/", n |-> 1]

\* ------------------------------------------------------------ filesystem
\* What is at a path: its kind, and whether the process may execute (a
\* file) or search (a directory) what the path resolves to.
Absent == [kind |-> "absent", x |-> FALSE]
Dir == [kind |-> "dir", x |-> TRUE]
RegX == [kind |-> "reg", x |-> TRUE]
RegNoX == [kind |-> "reg", x |-> FALSE]
LnkRegX == [kind |-> "lnk_reg", x |-> TRUE]
LnkRegNoX == [kind |-> "lnk_reg", x |-> FALSE]
LnkDir == [kind |-> "lnk_dir", x |-> TRUE]
LnkDangling == [kind |-> "lnk_dangling", x |-> FALSE]

IsDirEntry(e) == e.kind \in {"dir", "lnk_dir"}

\* The entry a path names.  A path that ends in '/' names the directory
\* before the '/', and nothing when that is no directory.
Entry(fs, path) ==
    IF path \in DOMAIN fs THEN fs[path]
    ELSE IF Len(path) > 1 /\ path[Len(path)] = Slash
         THEN LET parent == SubSeq(path, 1, Len(path) - 1) IN
              IF parent \in DOMAIN fs /\ IsDirEntry(fs[parent])
              THEN fs[parent] ELSE Absent
    ELSE Absent

\* stat(path, &st): follows symbolic links; "ENOENT" when it fails, else
\* the file type of st.st_mode.
Stat(fs, path) ==
    LET e == Entry(fs, path) IN
    CASE e.kind \in {"reg", "lnk_reg"} -> "S_IFREG"
      [] e.kind \in {"dir", "lnk_dir"} -> "S_IFDIR"
      [] OTHER -> "ENOENT"

S_ISREG(mode) == mode = "S_IFREG"
S_ISLNK(mode) == mode = "S_IFLNK"
S_ISDIR(mode) == mode = "S_IFDIR"

\* access(path, X_OK) = 0: follows symbolic links.
access_X_OK(fs, path) ==
    LET e == Entry(fs, path) IN
    e.kind \in {"reg", "lnk_reg", "dir", "lnk_dir"} /\ e.x

file_exists(fs, path) ==
    IF strlen(path) = 0 THEN FALSE
    ELSE LET st == Stat(fs, path) IN
         IF st = "ENOENT" THEN FALSE ELSE S_ISREG(st) \/ S_ISLNK(st)

directory_exists(fs, path) ==
    IF strlen(path) = 0 THEN FALSE
    ELSE LET st == Stat(fs, path) IN
         IF st = "ENOENT" THEN FALSE ELSE S_ISDIR(st)

\* The stat calls file_exists and directory_exists make on a path.
StatCalls(path) == IF strlen(path) = 0 THEN 0 ELSE 1

\* -------------------------------------------------------------- logging
log_message(s, level, msg) ==
    [s EXCEPT !.logs = Append(@, << level, msg >>)]

\* ------------------------------------------------------- the launcher run
\* A run of the launcher is a record s:
\*   pc           where the run is: "main", "validate", "configure",
\*                "inspect", "exec" (inside launch_application), "ret" (back
\*                in main after launch_application returned), "exited",
\*                "replaced" (execv succeeded)
\*   argc, bundle_path (argv[1]), fs, env (LD_LIBRARY_PATH), env0 (its
\*   value at start), logs, usage (print_usage ran), status (exit code)
\*   vres, vpath  what validate_bundle returned, and the path it checked
\*   cres         what configure_library_path returned
\*   nstat, naccess, ngetenv, nsetenv   system calls made so far
\*   execs        the execv calls made: << [path, argv] >>
\*   nchg         changes another process made to the executable
Unset == [set |-> FALSE, val |-> << >>]
Value(v) == [set |-> TRUE, val |-> v]

\* A launcher that only asks for a bundle path, and lets more arguments by.
args_ok_at_least_one(n) == n >= 2

\* main, line 349: exactly one positional argument.
args_ok(n) == n = 2

\* main, lines 347-369: the argument check and the start-up logging.
main_args(s) ==
    IF ~args_ok(s.argc) THEN
        [log_message(s, "ERROR",
                     IF s.argc > 2 THEN "Too many arguments provided"
                     ELSE "Missing required bundle path argument")
            EXCEPT !.usage = TRUE, !.status = EXIT_INVALID_ARGS, !.pc = "exited"]
    ELSE IF strlen(s.bundle_path) >= MAX_PATH_LENGTH THEN
        [log_message(s, "ERROR", "Bundle path too long")
            EXCEPT !.status = EXIT_INVALID_ARGS, !.pc = "exited"]
    ELSE
        [log_message(log_message(s, "INFO", "Starting"), "INFO", "Target bundle")
            EXCEPT !.pc = "validate"]

\* launch_application, lines 285-288: where it goes on after validate_bundle
\* returned result.
after_validate(result) == IF result # EXIT_SUCCESS THEN "ret" ELSE "configure"

\* A launcher that does not look at what configure_library_path returned.
after_configure_unchecked(result) == "inspect"

\* launch_application, lines 291-294: where it goes on after
\* configure_library_path returned result.
after_configure(result) == IF result # EXIT_SUCCESS THEN "ret" ELSE "inspect"

\* validate_bundle, lines 177-200, and launch_application's use of what it
\* returns, lines 285-288.
validate_bundle(s) ==
    LET full_path == snprintf(MAX_PATH_LENGTH, s.bundle_path \o EXEC_PATH) IN
    IF ~directory_exists(s.fs, s.bundle_path) THEN
        [log_message(s, "ERROR", "Bundle directory not found")
            EXCEPT !.nstat = @ + StatCalls(s.bundle_path),
                   !.vres = EXIT_BUNDLE_ERROR, !.pc = after_validate(EXIT_BUNDLE_ERROR)]
    ELSE IF ~file_exists(s.fs, full_path) THEN
        [log_message(s, "ERROR", "Required executable not found")
            EXCEPT !.nstat = @ + StatCalls(s.bundle_path) + StatCalls(full_path),
                   !.vres = EXIT_BUNDLE_ERROR, !.vpath = full_path,
                   !.pc = after_validate(EXIT_BUNDLE_ERROR)]
    ELSE IF ~access_X_OK(s.fs, full_path) THEN
        [log_message(s, "ERROR", "Executable lacks execute permissions")
            EXCEPT !.nstat = @ + StatCalls(s.bundle_path) + StatCalls(full_path),
                   !.naccess = @ + 1,
                   !.vres = EXIT_BUNDLE_ERROR, !.vpath = full_path,
                   !.pc = after_validate(EXIT_BUNDLE_ERROR)]
    ELSE
        [log_message(s, "INFO", "Bundle validation successful")
            EXCEPT !.nstat = @ + StatCalls(s.bundle_path) + StatCalls(full_path),
                   !.naccess = @ + 1,
                   !.vres = EXIT_SUCCESS, !.vpath = full_path,
                   !.pc = after_validate(EXIT_SUCCESS)]

\* setenv("LD_LIBRARY_PATH", value, 1): sets the variable when ok; when the
\* call fails (ENOMEM) the variable is as it was.
setenv(env, value, ok) == IF ok THEN Value(value) ELSE env

\* configure_library_path, lines 207-241, and launch_application's use of
\* what it returns, lines 291-294.  setenv_ok: whether setenv succeeds.
configure_library_path(s, setenv_ok) ==
    LET lib_full_path == snprintf(MAX_PATH_LENGTH, s.bundle_path \o LIB_PATH)
        current_ld_path == s.env
        probed == [s EXCEPT !.nstat = @ + StatCalls(lib_full_path)]
        read == [probed EXCEPT !.ngetenv = @ + 1]
    IN
    IF ~directory_exists(s.fs, lib_full_path) THEN
        [log_message(probed, "WARN", "Library directory not found")
            EXCEPT !.cres = EXIT_SUCCESS, !.pc = after_configure(EXIT_SUCCESS)]
    ELSE IF current_ld_path.set /\ strlen(current_ld_path.val) > 0
            /\ strlen(lib_full_path) + strlen(current_ld_path.val) + 2 > MAX_ENV_LENGTH
    THEN
        [log_message(read, "ERROR", "LD_LIBRARY_PATH would exceed maximum length")
            EXCEPT !.cres = EXIT_SYSTEM_ERROR,
                   !.pc = after_configure(EXIT_SYSTEM_ERROR)]
    ELSE
        LET new_ld_path ==
                IF current_ld_path.set /\ strlen(current_ld_path.val) > 0
                THEN snprintf(MAX_ENV_LENGTH,
                              lib_full_path \o Colon \o current_ld_path.val)
                ELSE snprintf(MAX_ENV_LENGTH, lib_full_path)
            called == [read EXCEPT !.nsetenv = @ + 1,
                                   !.env = setenv(@, new_ld_path, setenv_ok)]
        IN
        IF ~setenv_ok THEN
            [log_message(called, "ERROR", "Failed to set LD_LIBRARY_PATH")
                EXCEPT !.cres = EXIT_SYSTEM_ERROR,
                   !.pc = after_configure(EXIT_SYSTEM_ERROR)]
        ELSE
            [log_message(log_message(called, "INFO", "Library path configured"),
                         "DEBUG", "Full LD_LIBRARY_PATH")
                EXCEPT !.cres = EXIT_SUCCESS, !.pc = after_configure(EXIT_SUCCESS)]

\* inspect_optional_components, lines 247-273: the three probes and what
\* each logs.
inspect_logs(s) ==
    LET meta == snprintf(MAX_PATH_LENGTH, s.bundle_path \o METADATA_PATH)
        icon == snprintf(MAX_PATH_LENGTH, s.bundle_path \o ICON_PATH)
        res == snprintf(MAX_PATH_LENGTH, s.bundle_path \o RES_PATH)
        s1 == IF file_exists(s.fs, meta)
              THEN log_message(s, "INFO", "Metadata file found")
              ELSE log_message(s, "DEBUG", "Metadata file not present")
        s2 == IF file_exists(s.fs, icon)
              THEN log_message(s1, "INFO", "Icon file found")
              ELSE log_message(s1, "DEBUG", "Icon file not present")
        s3 == IF directory_exists(s.fs, res)
              THEN log_message(s2, "INFO", "Resources directory found")
              ELSE log_message(s2, "DEBUG", "Resources directory not present")
    IN
    [s3 EXCEPT !.nstat = @ + StatCalls(meta) + StatCalls(icon) + StatCalls(res)]

\* An inspector that takes a missing metadata file for a bundle error.
inspect_metadata_required(s) ==
    LET meta == snprintf(MAX_PATH_LENGTH, s.bundle_path \o METADATA_PATH) IN
    IF file_exists(s.fs, meta) THEN [inspect_logs(s) EXCEPT !.pc = "exec"]
    ELSE [log_message(inspect_logs(s), "ERROR", "Metadata file not present")
            EXCEPT !.cres = EXIT_BUNDLE_ERROR, !.pc = "ret"]

\* launch_application, lines 296-297: the inspector returns nothing, and the
\* launcher goes on to the handoff.
inspect_optional_components(s) == [inspect_logs(s) EXCEPT !.pc = "exec"]

\* execv(path, argv) replaces the process image: it needs a regular file
\* the process may execute, and kernel_ok says whether the kernel accepts
\* the image (format, memory).
execv_succeeds(fs, path, kernel_ok) ==
    /\ kernel_ok
    /\ S_ISREG(Stat(fs, path))
    /\ access_X_OK(fs, path)

\* The process handoff of launch_application, lines 299-313.
handoff(s, kernel_ok) ==
    LET exec_path == snprintf(MAX_PATH_LENGTH, s.bundle_path \o EXEC_PATH)
        argv == << exec_path >>
        logged == log_message(log_message(s, "INFO", "Launching application"),
                              "DEBUG", "Working directory")
        called == [logged EXCEPT !.execs = Append(@, [path |-> exec_path,
                                                       argv |-> argv])]
    IN
    IF execv_succeeds(s.fs, exec_path, kernel_ok) THEN
        [called EXCEPT !.pc = "replaced"]
    ELSE
        [log_message(called, "ERROR", "Failed to execute application")
            EXCEPT !.pc = "ret"]

\* A launcher that returns its variable result, still EXIT_SUCCESS, when
\* execv failed.
launch_result_stale(s) ==
    IF s.vres # EXIT_SUCCESS THEN s.vres ELSE s.cres

\* What launch_application returned to main, line 372.
launch_result(s) ==
    IF s.vres # EXIT_SUCCESS THEN s.vres
    ELSE IF s.cres # EXIT_SUCCESS THEN s.cres
    ELSE EXIT_EXEC_ERROR

\* A main that returns the result without its own message.
main_return_silent(s) ==
    [s EXCEPT !.status = launch_result(s), !.pc = "exited"]

\* main after launch_application returned, lines 374-376.
main_return(s) ==
    [log_message(s, "ERROR", "Application launcher terminated unexpectedly")
        EXCEPT !.status = launch_result(s), !.pc = "exited"]

\* Another process replaces the bundle's executable between the validator's
\* check and the exec: the launcher does not defend against it.
fs_change(s, e) ==
    LET exec_path == snprintf(MAX_PATH_LENGTH, s.bundle_path \o EXEC_PATH) IN
    [s EXCEPT !.fs[exec_path] = e, !.nchg = @ + 1]

\* ------------------------------------------------------------ start states
BundleLens == {0, ShortLen} \cup {MAX_PATH_LENGTH - d : d \in Slacks}

\* Lengths of the value LD_LIBRARY_PATH has at start: empty, one character,
\* and the longest that fits behind the short bundle's library path and the
\* first that does not.
PriorLens == {0, 1, MAX_ENV_LENGTH - (ShortLen + 8) - 2,
              MAX_ENV_LENGTH - (ShortLen + 8) - 1}

PriorVals == {Unset} \cup {Value(Blk("P", n)) : n \in PriorLens}

ExecEntries == {Absent, RegX, RegNoX, Dir, LnkRegX, LnkRegNoX, LnkDir, LnkDangling}
BundleEntries == {Absent, Dir, RegNoX}
LibEntries == {Absent, Dir, RegNoX}

\* A path without its trailing '/'.
Canon(p) == IF Len(p) > 1 /\ p[Len(p)] = Slash THEN SubSeq(p, 1, Len(p) - 1) ELSE p

\* p is a directory on the way to q.
Ancestor(p, q) ==
    /\ Len(p) < Len(q)
    /\ SubSeq(q, 1, Len(p)) = p
    /\ q[Len(p) + 1] = Slash

Consistent(fs) ==
    \A p \in DOMAIN fs : \A q \in DOMAIN fs :
        (Ancestor(p, q) /\ fs[q] # Absent) => IsDirEntry(fs[p])

\* The paths of a run on bundle path bp that the model gives an entry: the
\* bundle, exec/base and library under it, and every path the launcher
\* probes, which is a path of its own when snprintf cut the name short.
Probed(bp, suffix) == Canon(snprintf(MAX_PATH_LENGTH, bp \o suffix))

Paths(bp) ==
    IF strlen(bp) = 0 \/ strlen(bp) >= MAX_PATH_LENGTH THEN {bp}
    ELSE {bp, bp \o EXEC_PATH, bp \o LIB_PATH, Probed(bp, EXEC_PATH),
          Probed(bp, LIB_PATH), Probed(bp, METADATA_PATH),
          Probed(bp, ICON_PATH), Probed(bp, RES_PATH)}

\* The filesystem with entry eb at the bundle path, ee at exec/base, el at
\* library, ep and elp at the probed executable and library paths (when
\* those are other paths), em, ei and er at the probed metadata, icon and
\* resources paths.  An empty path, or one too long to resolve, names nothing.
FileSystem(bp, eb, ee, el, ep, elp, em, ei, er) ==
    LET xf == bp \o EXEC_PATH
        lf == bp \o LIB_PATH
        xp == Probed(bp, EXEC_PATH)
        lp == Probed(bp, LIB_PATH)
        mp == Probed(bp, METADATA_PATH)
        ip == Probed(bp, ICON_PATH)
    IN
    IF strlen(bp) = 0 \/ strlen(bp) >= MAX_PATH_LENGTH THEN [p \in {bp} |-> Absent]
    ELSE [p \in Paths(bp) |->
            CASE p = bp -> eb
              [] p = xf -> ee
              [] p = lf -> el
              [] p = xp -> ep
              [] p = lp -> elp
              [] p = mp -> em
              [] p = ip -> ei
              [] OTHER -> er]

\* The entries a start state chooses for the probed executable and library
\* paths: a choice only where the probed path is a path of its own.
ProbedChoices(bp, suffix, entries) ==
    IF Probed(bp, suffix) \in {bp, bp \o suffix} THEN {Absent} ELSE entries

\* Under a bundle path that is no directory there is nothing.
Under(eb, entries) == IF IsDirEntry(eb) THEN entries ELSE {Absent}

Start(a, bp, f, e0) ==
    [pc |-> "main", argc |-> a, bundle_path |-> bp, fs |-> f, env |-> e0,
     env0 |-> e0, logs |-> << >>, usage |-> FALSE, status |-> NoExit,
     vres |-> NoExit, vpath |-> << >>, cres |-> NoExit,
     nstat |-> 0, naccess |-> 0, ngetenv |-> 0, nsetenv |-> 0,
     execs |-> << >>, nchg |-> 0]

\* ---------------------------------------------------------------- state
VARIABLES pc, argc, bundle_path, fs, env, env0, logs, usage, status,
          vres, vpath, cres, nstat, naccess, ngetenv, nsetenv, execs, nchg,
          twin

vars == << pc, argc, bundle_path, fs, env, env0, logs, usage, status,
           vres, vpath, cres, nstat, naccess, ngetenv, nsetenv, execs, nchg,
           twin >>

\* The run as a record, and the step to the run n.
Cur ==
    [pc |-> pc, argc |-> argc, bundle_path |-> bundle_path, fs |-> fs,
     env |-> env, env0 |-> env0, logs |-> logs, usage |-> usage,
     status |-> status, vres |-> vres, vpath |-> vpath, cres |-> cres,
     nstat |-> nstat, naccess |-> naccess, ngetenv |-> ngetenv,
     nsetenv |-> nsetenv, execs |-> execs, nchg |-> nchg]

Becomes(n) ==
    /\ pc' = n.pc /\ argc' = n.argc /\ bundle_path' = n.bundle_path
    /\ fs' = n.fs /\ env' = n.env /\ env0' = n.env0 /\ logs' = n.logs
    /\ usage' = n.usage /\ status' = n.status /\ vres' = n.vres
    /\ vpath' = n.vpath /\ cres' = n.cres /\ nstat' = n.nstat
    /\ naccess' = n.naccess /\ ngetenv' = n.ngetenv /\ nsetenv' = n.nsetenv
    /\ execs' = n.execs /\ nchg' = n.nchg

Starts(r) ==
    /\ pc = r.pc /\ argc = r.argc /\ bundle_path = r.bundle_path
    /\ fs = r.fs /\ env = r.env /\ env0 = r.env0 /\ logs = r.logs
    /\ usage = r.usage /\ status = r.status /\ vres = r.vres
    /\ vpath = r.vpath /\ cres = r.cres /\ nstat = r.nstat
    /\ naccess = r.naccess /\ ngetenv = r.ngetenv /\ nsetenv = r.nsetenv
    /\ execs = r.execs /\ nchg = r.nchg

\* twin is a second run of the launcher, taken step by step with the first
\* on the same choices of the environment; NoTwin when there is none.
NoTwin == [pc |-> "off"]

Step(F(_)) ==
    /\ twin.pc \in {"off", pc}
    /\ Becomes(F(Cur))
    /\ twin' = IF twin.pc = "off" THEN twin ELSE F(twin)

Init ==
    \E a \in 1 .. MaxArgc, n \in BundleLens, e0 \in PriorVals :
    \E eb \in IF n = 0 \/ n >= MAX_PATH_LENGTH THEN {Absent} ELSE BundleEntries :
    \E ee \in Under(eb, ExecEntries), el \in Under(eb, LibEntries),
       ep \in Under(eb, ProbedChoices(Blk("B", n), EXEC_PATH, {Absent, RegX, Dir})),
       elp \in Under(eb, ProbedChoices(Blk("B", n), LIB_PATH, {Absent, Dir})),
       em \in Under(eb, {Absent, RegNoX}), ei \in Under(eb, {Absent, RegNoX}),
       er \in Under(eb, {Absent, Dir}) :
        LET bp == Blk("B", n)
            f == FileSystem(bp, eb, ee, el, ep, elp, em, ei, er)
        IN /\ Consistent(f)
           /\ Starts(Start(a, bp, f, e0))
           /\ twin = NoTwin

MainArgs == pc = "main" /\ Step(main_args)

ValidateBundle == pc = "validate" /\ Step(validate_bundle)

ConfigureLibraryPath ==
    /\ pc = "configure"
    /\ \E setenv_ok \in BOOLEAN :
          Step(LAMBDA s : configure_library_path(s, setenv_ok))

InspectOptionalComponents == pc = "inspect" /\ Step(inspect_optional_components)

Handoff ==
    /\ pc = "exec"
    /\ \E kernel_ok \in BOOLEAN : Step(LAMBDA s : handoff(s, kernel_ok))

MainReturn == pc = "ret" /\ Step(main_return)

FsChange ==
    /\ pc \in {"configure", "inspect", "exec"}
    /\ nchg < MaxFsChanges
    /\ \E e \in {Absent, RegNoX, RegX} :
          /\ e # fs[vpath]
          /\ Step(LAMBDA s : fs_change(s, e))

Next ==
    \/ MainArgs
    \/ ValidateBundle
    \/ ConfigureLibraryPath
    \/ InspectOptionalComponents
    \/ Handoff
    \/ MainReturn
    \/ FsChange

Spec == Init /\ [][Next]_vars

\* The same runs, each beside its twin: the run on the same bundle without
\* its optional components (what the inspector probes), with the same
\* arguments and environment.  Two bundles that differ only in those
\* components have the same twin, so two runs that each agree with their
\* twin agree with each other.
InitPair ==
    \E a \in 1 .. MaxArgc, n \in BundleLens, e0 \in PriorVals :
    \E eb \in IF n = 0 \/ n >= MAX_PATH_LENGTH THEN {Absent} ELSE BundleEntries :
    \E ee \in Under(eb, ExecEntries), el \in Under(eb, LibEntries),
       ep \in Under(eb, ProbedChoices(Blk("B", n), EXEC_PATH, {Absent, RegX, Dir})),
       elp \in Under(eb, ProbedChoices(Blk("B", n), LIB_PATH, {Absent, Dir})),
       em \in Under(eb, {Absent, RegNoX}), ei \in Under(eb, {Absent, RegNoX}),
       er \in Under(eb, {Absent, Dir}) :
        LET bp == Blk("B", n)
            f == FileSystem(bp, eb, ee, el, ep, elp, em, ei, er)
            g == FileSystem(bp, eb, ee, el, ep, elp, Absent, Absent, Absent)
        IN /\ Consistent(f)
           /\ Starts(Start(a, bp, f, e0))
           /\ twin = Start(a, bp, g, e0)

SpecPair == InitPair /\ [][Next]_vars

\* ------------------------------------------------------------ properties
\* Names for the states the properties speak of.
ExecPath == bundle_path \o EXEC_PATH
LibraryPath == bundle_path \o LIB_PATH
Terminal == pc \in {"exited", "replaced"}
HandoffEntered == pc \in {"exec", "replaced"} \/ execs # << >>

\* The bundle as the specification describes it: (a) the path is a directory, (b)
\* exec/base is a regular file or a symbolic link, (c) it may be executed.
BundleIsDirectory == IsDirEntry(Entry(fs, bundle_path))
ExecBaseIsFileOrLink ==
    Entry(fs, ExecPath).kind \in {"reg", "lnk_reg", "lnk_dir", "lnk_dangling"}
ExecBaseExecutable == access_X_OK(fs, ExecPath)
ValidBundle == BundleIsDirectory /\ ExecBaseIsFileOrLink /\ ExecBaseExecutable
HasLibraryDirectory == IsDirEntry(Entry(fs, LibraryPath))

RECURSIVE ErrorCount(_)
ErrorCount(l) ==
    IF l = << >> THEN 0
    ELSE (IF Head(l)[1] = "ERROR" THEN 1 ELSE 0) + ErrorCount(Tail(l))

Errors(l) == SelectSeq(l, LAMBDA m : m[1] = "ERROR")

C7_UsageTouchesNothing ==
    argc # 2 =>
        /\ pc \in {"main", "exited"}
        /\ pc = "exited" => (status = EXIT_INVALID_ARGS /\ usage)
        /\ nstat = 0 /\ naccess = 0
        /\ ngetenv = 0 /\ nsetenv = 0 /\ env = env0
        /\ execs = << >>

C7_Witness == argc > 2 /\ pc = "exited" /\ usage

\* C9: a run ends replaced or with exit code 1, 2, 3 or 4, never 0: 1 for
\* invalid arguments, 2 when validate_bundle failed, 4 when
\* configure_library_path failed, 3 when and only when execv was called and
\* returned; a run that has not ended is at a step of main or of
\* launch_application, with no exit code yet.
C9_Outcomes ==
    /\ ~Terminal =>
        /\ status = NoExit
        /\ pc \in {"main", "validate", "configure", "inspect", "exec", "ret"}
    /\ pc = "replaced" => (status = NoExit /\ Len(execs) = 1)
    /\ pc = "exited" =>
        /\ status \in {EXIT_INVALID_ARGS, EXIT_BUNDLE_ERROR,
                        EXIT_EXEC_ERROR, EXIT_SYSTEM_ERROR}
        /\ status = EXIT_INVALID_ARGS <=>
                (argc # 2 \/ strlen(bundle_path) >= MAX_PATH_LENGTH)
        /\ status = EXIT_BUNDLE_ERROR <=> vres = EXIT_BUNDLE_ERROR
        /\ status = EXIT_SYSTEM_ERROR <=>
                (vres = EXIT_SUCCESS /\ cres = EXIT_SYSTEM_ERROR)
        /\ status = EXIT_EXEC_ERROR <=> Len(execs) = 1
        /\ status # EXIT_EXEC_ERROR => execs = << >>

\* The executable passed validation, lost its execute permission, and the
\* exec failed with code 3.
C9_Witness ==
    /\ pc = "exited" /\ status = EXIT_EXEC_ERROR
    /\ nchg > 0 /\ ~access_X_OK(fs, vpath)

\* C8 as stated: a run that ended in a failure has logged exactly one
\* message of severity ERROR.
C8_OneErrorMessage == pc = "exited" => ErrorCount(logs) = 1

SpecificDiagnostics ==
    [i \in {EXIT_INVALID_ARGS, EXIT_BUNDLE_ERROR, EXIT_EXEC_ERROR, EXIT_SYSTEM_ERROR} |->
        CASE i = EXIT_INVALID_ARGS ->
                {"Too many arguments provided",
                 "Missing required bundle path argument", "Bundle path too long"}
          [] i = EXIT_BUNDLE_ERROR ->
                {"Bundle directory not found", "Required executable not found",
                 "Executable lacks execute permissions"}
          [] i = EXIT_EXEC_ERROR -> {"Failed to execute application"}
          [] OTHER ->
                {"LD_LIBRARY_PATH would exceed maximum length",
                 "Failed to set LD_LIBRARY_PATH"}]

\* C8 as amended: no ERROR message is logged before a failure; a run that
\* ended in a failure has logged the specific diagnostic of its failure
\* exactly once, as its first ERROR message; that is its only ERROR message
\* when the arguments were invalid (exit 1), and when launch_application
\* failed (exit 2, 3, 4) main has logged one more, "Application launcher
\* terminated unexpectedly", as the last message before it returns the code.
C8_DiagnosticThenMainsMessage ==
    /\ pc \in {"main", "validate", "configure", "inspect", "exec", "replaced"}
            => ErrorCount(logs) = 0
    /\ pc = "ret" =>
            /\ ErrorCount(logs) = 1
            /\ logs[Len(logs)][1] = "ERROR"
            /\ logs[Len(logs)][2] \in SpecificDiagnostics[launch_result(Cur)]
    /\ pc = "exited" =>
            /\ Errors(logs)[1][2] \in SpecificDiagnostics[status]
            /\ status = EXIT_INVALID_ARGS => ErrorCount(logs) = 1
            /\ status # EXIT_INVALID_ARGS =>
                    /\ ErrorCount(logs) = 2
                    /\ logs[Len(logs)] =
                         << "ERROR", "Application launcher terminated unexpectedly" >>

C8_Witness ==
    /\ pc = "exited" /\ status = EXIT_BUNDLE_ERROR /\ ErrorCount(logs) = 2
    /\ Errors(logs)[1][2] = "Executable lacks execute permissions"

\* C10: a run and its twin on the bundle without the optional components
\* are at the same place with the same results, the same execv calls and
\* the same LD_LIBRARY_PATH; execv is called with the executable's path as
\* the only argument; and the step of the inspector goes on to the handoff
\* with the environment and the results as they were.
C10_InspectorObservational ==
    /\ [](twin.pc # "off" =>
            /\ twin.pc = pc /\ twin.status = status
            /\ twin.vres = vres /\ twin.cres = cres
            /\ twin.execs = execs /\ twin.env = env
            /\ \A i \in 1 .. Len(execs) : execs[i].argv = << execs[i].path >>)
    /\ [][(pc = "inspect" /\ nchg' = nchg) =>
            /\ pc' = "exec"
            /\ env' = env /\ nsetenv' = nsetenv
            /\ status' = status /\ vres' = vres /\ cres' = cres
            /\ ErrorCount(logs') = 0]_vars

\* A bundle with optional components, handed off like its twin without.
C10_Witness ==
    /\ twin.pc = "replaced" /\ pc = "replaced"
    /\ twin.logs # logs /\ twin.fs # fs
    /\ env # env0

\* C2: with one argument, when the bundle path is no directory, or exec/base
\* under it is missing, or it is not executable (on the filesystem the run
\* started with), the launcher does not go on to configure the environment:
\* LD_LIBRARY_PATH is neither read nor written, execv is not called, and the
\* run ends with exit code 2.
C2_InvalidBundleExits2 ==
    (/\ argc = 2 /\ nchg = 0
     /\ \/ ~BundleIsDirectory
        \/ Entry(fs, ExecPath).kind = "absent"
        \/ ~ExecBaseExecutable)
    => /\ pc \in {"main", "validate", "ret", "exited"}
       /\ ngetenv = 0 /\ nsetenv = 0 /\ env = env0
       /\ execs = << >>
       /\ pc = "exited" => status = EXIT_BUNDLE_ERROR

\* C3: validate_bundle returns success exactly when (a) the bundle path is a
\* directory, (b) exec/base is a regular file or a symbolic link and (c) it
\* may be executed.
C3_ValidateIffABC ==
    (vres # NoExit /\ nchg = 0) => (vres = EXIT_SUCCESS <=> ValidBundle)

\* C4: on a valid bundle without a library directory configure_library_path
\* returns success and LD_LIBRARY_PATH is, from then until the handoff, what
\* it was at start.
C4_NoLibraryNoChange ==
    (/\ nchg = 0 /\ ValidBundle /\ ~HasLibraryDirectory
     /\ cres # NoExit)
    => cres = EXIT_SUCCESS /\ env = env0 /\ nsetenv = 0

\* C5: on a bundle with a library directory, once configure_library_path
\* returned success, LD_LIBRARY_PATH is <bundle_path>/library when it had no
\* value (unset or empty), and else <bundle_path>/library, ':' and the whole
\* value it had.
C5_PrependedVerbatim ==
    (HasLibraryDirectory /\ cres = EXIT_SUCCESS)
    => env = Value(IF env0.set /\ strlen(env0.val) > 0
                   THEN LibraryPath \o Colon \o env0.val
                   ELSE LibraryPath)

\* <bundle_path>/library, ':', the prior value and the terminator are more
\* than MAX_ENV_LENGTH characters.
TooLong ==
    /\ env0.set /\ strlen(env0.val) > 0
    /\ strlen(LibraryPath) + 1 + strlen(env0.val) + 1 > MAX_ENV_LENGTH

LengthErrorLogged ==
    \E i \in 1 .. Len(logs) :
        logs[i][2] = "LD_LIBRARY_PATH would exceed maximum length"

SetenvFailedLogged ==
    \E i \in 1 .. Len(logs) : logs[i][2] = "Failed to set LD_LIBRARY_PATH"

\* C6: on a bundle with a library directory, when <bundle_path>/library, ':',
\* the prior value and the terminator are more than MAX_ENV_LENGTH
\* characters, configure_library_path returns the system error: the run
\* does not reach the handoff, LD_LIBRARY_PATH keeps its value and the exit
\* code is 4; the same when setenv failed; and when the string fits, the
\* length check raises no error.
C6_TooLongIsSystemError ==
    (HasLibraryDirectory /\ cres # NoExit) =>
        /\ (TooLong \/ SetenvFailedLogged) =>
                /\ cres = EXIT_SYSTEM_ERROR
                /\ env = env0
                /\ execs = << >>
                /\ pc \in {"ret", "exited"}
                /\ pc = "exited" => status = EXIT_SYSTEM_ERROR
        /\ ~TooLong => ~LengthErrorLogged

\* Where C2, C4, C5 and C6 fail: only on a bundle path so long that snprintf
\* cuts <bundle_path>/exec/base short (or, for C2, that main rejects it).
\* On every path that leaves room for the name they hold.
NamesFit == strlen(bundle_path) + Len(EXEC_PATH) < MAX_PATH_LENGTH

WhereNamesFit ==
    NamesFit => /\ C2_InvalidBundleExits2
                /\ C4_NoLibraryNoChange
                /\ C5_PrependedVerbatim
                /\ C6_TooLongIsSystemError

=============================================================================
